---- MODULE Spec2Model ----
(***************************************************************************)
(* Transaction-receipt reconciliation engine of finance-recon-ai.          *)
(*                                                                         *)
(* The record store holds FinancialDocument and Transaction rows plus the  *)
(* TaxAnalysis rows keyed by transaction.  Every HTTP handler / script is  *)
(* one atomic action of Spec; SpecConc splits run_auto_reconciliation and  *)
(* manual_match_transaction into their read phase and their commit, each   *)
(* running in a database session of its own.                               *)
(*                                                                         *)
(* Units: amounts are in centavos (0.05 -> 5, 1.0 -> 100), scores are in   *)
(* hundredths (0.70 -> 70, 1.0 -> 100), dates are day numbers, and month   *)
(* numbers are derived from day numbers by MonthOf.                        *)
(***************************************************************************)
EXTENDS Integers, Sequences, FiniteSets, TLC

VARIABLES documents, transactions, tax_analysis, next_doc, next_txn,
          response, sessions

vars == <<documents, transactions, tax_analysis, next_doc, next_txn,
          response, sessions>>

store == <<documents, transactions, tax_analysis, next_doc, next_txn>>

(***************************************************************************)
(* Bounds of the model.                                                    *)
(***************************************************************************)
MaxDocs == 2
MaxTxns == 3
MaxAnalyses == 1

(***************************************************************************)
(* Null column values.                                                     *)
(***************************************************************************)
NULL == 0
NoScore == -1
NoType == "NULL"
\* A null amount and a null date (amounts of the model are never -0.01 and
\* its day numbers are never negative).
NoAmount == -1
NoDate == -1

Months == {1, 2}
DaysPerMonth == 30
MonthOf(day) == (day \div DaysPerMonth) + 1
\* created_at of every document: the wall clock does not advance in the model.
UploadMonth == 1

Abs(x) == IF x < 0 THEN -x ELSE x

DocId(n) == n
TxnId(n) == MaxDocs + n
AllDocIds == {DocId(n) : n \in 1..MaxDocs}
AllTxnIds == {TxnId(n) : n \in 1..MaxTxns}

(***************************************************************************)
(* Payloads handed over by ingestion.                                      *)
(***************************************************************************)
BankLines ==
    { [amount |-> -10000, date |-> 12, merchant_name |-> "SURYA DENTAL"],
      [amount |-> -15000, date |-> 10, merchant_name |-> "PADARIA"] }

ReceiptLines ==
    { [amount |-> 10000, date |-> 10, merchant_name |-> "SURYA DENTAL COM PROD ODONT"],
      [amount |-> 30000, date |-> 10, merchant_name |-> "SURYA DENTAL COM PROD ODONT"] }

\* thefuzz.fuzz.partial_ratio on the lower-cased names: 100 when the shorter
\* name occurs inside the longer one, a low ratio for unrelated names.
partial_ratio(a, b) ==
    IF a = b THEN 100
    ELSE IF {a, b} = {"SURYA DENTAL", "SURYA DENTAL COM PROD ODONT"} THEN 100
    ELSE IF {a, b} = {"SURYA DENTAL", "NFE SURYA DENTAL"} THEN 100
    ELSE 29

\* The last request served: the handler, its HTTP status and the count it
\* reports (matches_found, deleted_transactions, rows unlinked by a steal).
NoResponse == [op |-> "none", status |-> 0, count |-> 0, docs |-> 0, analyses |-> 0]

Resp(op, st, c) == [op |-> op, status |-> st, count |-> c, docs |-> 0, analyses |-> 0]

Resp2(op, st, c, d) ==
    [op |-> op, status |-> st, count |-> c, docs |-> d, analyses |-> 0]

\* analyses: the rows the DELETE on tax_analysis removed.
Resp3(op, st, c, d, a) ==
    [op |-> op, status |-> st, count |-> c, docs |-> d, analyses |-> a]

NewTxn(doc_id, line, month) ==
    [document_id |-> doc_id,
     merchant_name |-> line.merchant_name,
     date |-> line.date,
     amount |-> line.amount,
     competence_month |-> month,
     is_finalized |-> FALSE,
     receipt_id |-> NULL,
     match_score |-> NoScore,
     match_type |-> NoType]

Init ==
    /\ documents = <<>>
    /\ transactions = <<>>
    /\ tax_analysis = <<>>
    /\ next_doc = 1
    /\ next_txn = 1
    /\ response = NoResponse
    /\ sessions = <<>>

(***************************************************************************)
(* process_document: creates the document row and its transaction rows     *)
(* with a null link triple.                                                *)
(***************************************************************************)
Extend(f, k, v) == [x \in (DOMAIN f) \cup {k} |-> IF x = k THEN v ELSE f[x]]

Restrict(f, S) == [x \in S |-> f[x]]

process_document(doc_type, month, lines) ==
    /\ next_doc <= MaxDocs
    /\ next_txn + Len(lines) - 1 <= MaxTxns
    /\ LET d == DocId(next_doc)
           newIds == {TxnId(next_txn + i - 1) : i \in 1..Len(lines)}
       IN /\ documents' = Extend(documents, d,
                 [doc_type |-> doc_type, competence_month |-> month,
                  created_month |-> UploadMonth])
          /\ transactions' =
                 [t \in (DOMAIN transactions) \cup newIds |->
                     IF t \in newIds
                     THEN NewTxn(d, lines[t - TxnId(next_txn) + 1], month)
                     ELSE transactions[t]]
          /\ next_doc' = next_doc + 1
          /\ next_txn' = next_txn + Len(lines)
          /\ response' = Resp("process_document", 200, Len(lines))
    /\ UNCHANGED <<tax_analysis, sessions>>

\* POST /upload/statement with the competence month of the form.
upload_statement_in(periods) ==
    \E month \in periods, l1 \in BankLines :
        \/ process_document("BANK_STATEMENT", month, <<l1>>)
        \/ \E l2 \in BankLines :
               process_document("BANK_STATEMENT", month, <<l1, l2>>)

\* POST /upload/receipt: a receipt yields one transaction, or none when no
\* amount could be extracted.
upload_receipt_in(periods) ==
    \E month \in periods :
        \/ process_document("RECEIPT", month, <<>>)
        \/ \E l \in ReceiptLines :
               process_document("RECEIPT", month, <<l>>)

upload_statement == upload_statement_in(Months)

upload_receipt == upload_receipt_in(Months)

\* Uploads of a single competence period.
upload_statement_one_period == upload_statement_in({UploadMonth})

upload_receipt_one_period == upload_receipt_in({UploadMonth})

(***************************************************************************)
(* ReconciliationEngine.run_auto_reconciliation                            *)
(***************************************************************************)
ExactTolerance == 5
InstallmentTolerance == 100
MinInstallments == 2
MaxInstallments == 12
DateWindow == 3
InstallmentDateWindow == 180
InstallmentMinName == 85
NameBonusAbove == 80
BaseScore == 90
DayPenalty == 5
DistantInstallmentScore == 85
DistantAfterDays == 5
NameBonus == 10
InstallmentPenalty == 5
MaxScore == 100
Threshold == 70

SetMin(S) == CHOOSE x \in S : \A y \in S : x <= y
SetMax(S) == CHOOSE x \in S : \A y \in S : x >= y

DocTypeOf(txs, docs, t) ==
    IF txs[t].document_id \in DOMAIN docs
    THEN docs[txs[t].document_id].doc_type
    ELSE "NONE"

\* Variant: the receipt_id IS NULL filter of stmt_bank is missing.
bank_transactions_any_link(txs, docs) ==
    {t \in DOMAIN txs : DocTypeOf(txs, docs, t) = "BANK_STATEMENT"}

\* Variant: the doc_type filter of stmt_bank is missing.
bank_transactions_any_doc_type(txs, docs) ==
    {t \in DOMAIN txs : txs[t].receipt_id = NULL}

\* stmt_bank: joined to a BANK_STATEMENT document, receipt_id IS NULL
bank_transactions(txs, docs) ==
    {t \in DOMAIN txs : /\ DocTypeOf(txs, docs, t) = "BANK_STATEMENT"
                        /\ txs[t].receipt_id = NULL}

\* stmt_receipts: joined to a RECEIPT document
receipt_transactions(txs, docs) ==
    {t \in DOMAIN txs : DocTypeOf(txs, docs, t) = "RECEIPT"}

\* try: float(amount) except: continue
parses(row) == row.amount # NoAmount

\* Pairs of magnitudes whose decimal difference is exactly 0.05 while the
\* difference of their doubles is larger: abs(1.05 - 1.0) is
\* 0.050000000000000044.  The table covers the amounts of the model.
FloatExactMiss == {<<105, 100>>}

\* diff_1to1 = abs(abs(b_amt) - abs(r_amt)) on doubles; is_1to1 = diff_1to1 <= 0.05
is_1to1(b, r) ==
    /\ Abs(Abs(b.amount) - Abs(r.amount)) <= ExactTolerance
    /\ <<Abs(b.amount), Abs(r.amount)>> \notin FloatExactMiss

\* abs(abs(b_amt) - abs(r_amt) / n) <= 1.0, multiplied through by n
InstallmentHits(b, r) ==
    {n \in MinInstallments..MaxInstallments :
        Abs(n * Abs(b.amount) - Abs(r.amount)) <= InstallmentTolerance * n}

is_installment(b, r) == ~is_1to1(b, r) /\ InstallmentHits(b, r) # {}

installment_n(b, r) == SetMin(InstallmentHits(b, r))

date_penalty(b, r) == Abs(b.date - r.date)

\* Variant: installments get no wider window.
PassesDateWindow_strict(b, r) == date_penalty(b, r) <= DateWindow

PassesDateWindow(b, r) ==
    \/ date_penalty(b, r) <= DateWindow
    \/ is_installment(b, r) /\ date_penalty(b, r) <= InstallmentDateWindow

name_score(b, r) == partial_ratio(r.merchant_name, b.merchant_name)

IsCandidate(b, r) ==
    /\ parses(b) /\ parses(r)
    /\ is_1to1(b, r) \/ is_installment(b, r)
    /\ PassesDateWindow(b, r)
    /\ ~(is_installment(b, r) /\ name_score(b, r) < InstallmentMinName)

candidates(txs, docs, bt) ==
    {rt \in receipt_transactions(txs, docs) : IsCandidate(txs[bt], txs[rt])}

\* Variant: the sort key is (-name_score, date_penalty).
SortsBefore_name_first(b, txs, r1, r2) ==
    LET d1 == date_penalty(b, txs[r1])
        d2 == date_penalty(b, txs[r2])
        n1 == name_score(b, txs[r1])
        n2 == name_score(b, txs[r2])
    IN \/ n1 > n2
       \/ n1 = n2 /\ d1 < d2
       \/ d1 = d2 /\ n1 = n2 /\ r1 < r2

\* candidates.sort(key=(date_penalty, -name_score)); the sort is stable, so
\* ties keep the order of the query result (creation order of the rows).
SortsBefore(b, txs, r1, r2) ==
    LET d1 == date_penalty(b, txs[r1])
        d2 == date_penalty(b, txs[r2])
        n1 == name_score(b, txs[r1])
        n2 == name_score(b, txs[r2])
    IN \/ d1 < d2
       \/ d1 = d2 /\ n1 > n2
       \/ d1 = d2 /\ n1 = n2 /\ r1 < r2

best(txs, docs, bt) ==
    LET C == candidates(txs, docs, bt)
    IN CHOOSE r \in C : \A s \in C \ {r} : SortsBefore(txs[bt], txs, r, s)

\* Line 148 reads the loop variable is_installment, which still holds the
\* value computed for the last receipt transaction of the inner loop whose
\* amount parsed (line 60 is not reached for the others).
loop_is_installment(txs, docs, bt) ==
    is_installment(txs[bt],
        txs[SetMax({rt \in receipt_transactions(txs, docs) : parses(txs[rt])})])

\* Variant: a name score of 80 or less costs 0.1.
final_score_name_malus(txs, docs, bt) ==
    LET b == txs[bt]
        r == txs[best(txs, docs, bt)]
        dp == date_penalty(b, r)
        s0 == IF loop_is_installment(txs, docs, bt) /\ dp > DistantAfterDays
              THEN DistantInstallmentScore
              ELSE BaseScore - dp * DayPenalty
        s1 == IF name_score(b, r) > NameBonusAbove THEN s0 + NameBonus
              ELSE s0 - NameBonus
        s2 == IF is_installment(b, r) THEN s1 - InstallmentPenalty ELSE s1
    IN IF s2 > MaxScore THEN MaxScore ELSE s2

final_score(txs, docs, bt) ==
    LET b == txs[bt]
        r == txs[best(txs, docs, bt)]
        dp == date_penalty(b, r)
        s0 == IF loop_is_installment(txs, docs, bt) /\ dp > DistantAfterDays
              THEN DistantInstallmentScore
              ELSE BaseScore - dp * DayPenalty
        s1 == IF name_score(b, r) > NameBonusAbove THEN s0 + NameBonus ELSE s0
        s2 == IF is_installment(b, r) THEN s1 - InstallmentPenalty ELSE s1
    IN IF s2 > MaxScore THEN MaxScore ELSE s2

InstallmentTag(n) == "INSTALLMENT (" \o ToString(n) \o ")"

\* Variant: the threshold test of line 161 is missing.
accepted_no_threshold(txs, docs, bt) == candidates(txs, docs, bt) # {}

accepted(txs, docs, bt) ==
    /\ candidates(txs, docs, bt) # {}
    /\ final_score(txs, docs, bt) >= Threshold

\* Variant: the accepted match is scored and tagged but receipt_id is not set.
auto_link_without_receipt(txs, docs, bt) ==
    LET b == txs[bt]
        r == txs[best(txs, docs, bt)]
    IN [receipt_id |-> NULL,
        match_score |-> final_score(txs, docs, bt),
        match_type |-> IF is_installment(b, r)
                       THEN InstallmentTag(installment_n(b, r))
                       ELSE "AUTO"]

\* The link triple run_auto_reconciliation assigns to an accepted bank_txn.
auto_link(txs, docs, bt) ==
    LET b == txs[bt]
        r == txs[best(txs, docs, bt)]
    IN [receipt_id |-> r.document_id,
        match_score |-> final_score(txs, docs, bt),
        match_type |-> IF is_installment(b, r)
                       THEN InstallmentTag(installment_n(b, r))
                       ELSE "AUTO"]

matched(txs, docs) ==
    {bt \in bank_transactions(txs, docs) : accepted(txs, docs, bt)}

SetLink(row, link) ==
    [row EXCEPT !.receipt_id = link.receipt_id,
                !.match_score = link.match_score,
                !.match_type = link.match_type]

NullLink == [receipt_id |-> NULL, match_score |-> NoScore, match_type |-> NoType]

LinkOf(row) ==
    [receipt_id |-> row.receipt_id, match_score |-> row.match_score,
     match_type |-> row.match_type]

\* Line 80: bank_txn.date - receipt_txn.date raises TypeError when either
\* date is None; the line is reached by every pair that passed the amount
\* gate, and nothing catches the exception.
raises(txs, docs) ==
    \E bt \in bank_transactions(txs, docs), rt \in receipt_transactions(txs, docs) :
        /\ parses(txs[bt]) /\ parses(txs[rt])
        /\ is_1to1(txs[bt], txs[rt]) \/ is_installment(txs[bt], txs[rt])
        /\ txs[bt].date = NoDate \/ txs[rt].date = NoDate

RECURSIVE Ascending(_)
\* The elements of a set of row ids in the order of the query result.
Ascending(S) ==
    IF S = {} THEN <<>>
    ELSE <<SetMin(S)>> \o Ascending(S \ {SetMin(S)})

\* Variant: accuracy is taken over the bank transactions of the run.
run_results_per_bank_txn(txs, docs) ==
    LET order == Ascending(matched(txs, docs))
        n == Cardinality(bank_transactions(txs, docs))
    IN [matches_found |-> Len(order),
        details |-> [i \in 1..Len(order) |->
                        [bank_txn_id |-> order[i],
                         receipt_doc_id |-> auto_link(txs, docs, order[i]).receipt_id,
                         score |-> auto_link(txs, docs, order[i]).match_score]],
        reconciled_transactions |-> Len(order),
        accuracy |-> IF n # 0 THEN <<Len(order), n>> ELSE <<0, 1>>]

\* The dict the run returns: matches_found is incremented and details is
\* appended to once per accepted bank_txn; accuracy is the quotient
\* <<numerator, denominator>> of line 189, or 0.0.
run_results(txs, docs) ==
    LET order == Ascending(matched(txs, docs))
        n == Cardinality(receipt_transactions(txs, docs))
    IN [matches_found |-> Len(order),
        details |-> [i \in 1..Len(order) |->
                        [bank_txn_id |-> order[i],
                         receipt_doc_id |-> auto_link(txs, docs, order[i]).receipt_id,
                         score |-> auto_link(txs, docs, order[i]).match_score]],
        reconciled_transactions |-> Len(order),
        accuracy |-> IF n # 0 THEN <<Len(order), n>> ELSE <<0, 1>>]

run_auto_reconciliation ==
    IF raises(transactions, documents)
    THEN \* the exception leaves reconcile_transactions: no commit, 500
         /\ response' = Resp("run_auto_reconciliation", 500, 0)
         /\ UNCHANGED <<store, sessions>>
    ELSE LET M == matched(transactions, documents)
         IN /\ transactions' =
                   [t \in DOMAIN transactions |->
                       IF t \in M
                       THEN SetLink(transactions[t],
                                    auto_link(transactions, documents, t))
                       ELSE transactions[t]]
            /\ response' = Resp("run_auto_reconciliation", 200,
                   run_results(transactions, documents).matches_found)
            /\ UNCHANGED <<documents, tax_analysis, next_doc, next_txn, sessions>>

(***************************************************************************)
(* manual_match_transaction                                                *)
(***************************************************************************)
OwnedBy(txs, d) == {t \in DOMAIN txs : txs[t].document_id = d}

\* Step 2: the document with that id, else the owning document of the
\* transaction with that id, else NULL.
resolve_receipt(txs, docs, rid) ==
    IF rid \in DOMAIN docs THEN rid
    ELSE IF rid \in DOMAIN txs /\ txs[rid].document_id # NULL
              /\ txs[rid].document_id \in DOMAIN docs
         THEN txs[rid].document_id
         ELSE NULL

\* Variant: the steal loop finds no previous holder.
existing_links_none(txs, receipt, tid) == {}

\* Step 2.5: rows currently linked to the receipt, other than txn itself.
existing_links(txs, receipt, tid) ==
    {t \in DOMAIN txs : txs[t].receipt_id = receipt /\ t # tid}

\* Step 3: the warnings list is non-empty.
has_discrepancy(txs, receipt, tid) ==
    LET owned == OwnedBy(txs, receipt)
    IN /\ owned # {}
       /\ Abs(Abs(txs[tid].amount) - Abs(txs[SetMin(owned)].amount)) > ExactTolerance

\* Variant: the doc_type check of step 2 is missing.
manual_match_status_any_doc_type(txs, docs, tid, rid, force) ==
    LET receipt == resolve_receipt(txs, docs, rid)
    IN IF tid \notin DOMAIN txs THEN 404
       ELSE IF receipt = NULL THEN 404
       ELSE IF ~force /\ has_discrepancy(txs, receipt, tid) THEN 409
       ELSE 200

\* HTTP status of the request.
manual_match_status(txs, docs, tid, rid, force) ==
    LET receipt == resolve_receipt(txs, docs, rid)
    IN IF tid \notin DOMAIN txs THEN 404
       ELSE IF receipt = NULL THEN 404
       ELSE IF docs[receipt].doc_type # "RECEIPT" THEN 400
       ELSE IF ~force /\ has_discrepancy(txs, receipt, tid) THEN 409
       ELSE 200

ManualLink(receipt) ==
    [receipt_id |-> receipt, match_score |-> MaxScore, match_type |-> "MANUAL"]

\* Variant: the steal loop clears receipt_id only.
manual_match_rows_steal_receipt_only(txs, docs, tid, rid) ==
    LET receipt == resolve_receipt(txs, docs, rid)
        old == existing_links(txs, receipt, tid)
    IN [t \in DOMAIN txs |->
           IF t = tid THEN SetLink(txs[t], ManualLink(receipt))
           ELSE IF t \in old THEN [txs[t] EXCEPT !.receipt_id = NULL]
           ELSE txs[t]]

\* Variant: step 4 assigns the receipt to document_id as well.
manual_match_rows_reowned(txs, docs, tid, rid) ==
    LET receipt == resolve_receipt(txs, docs, rid)
        old == existing_links(txs, receipt, tid)
    IN [t \in DOMAIN txs |->
           IF t = tid
           THEN [SetLink(txs[t], ManualLink(receipt)) EXCEPT !.document_id = receipt]
           ELSE IF t \in old THEN SetLink(txs[t], NullLink)
           ELSE txs[t]]

\* The rows as the session holds them at db.commit().
manual_match_rows(txs, docs, tid, rid) ==
    LET receipt == resolve_receipt(txs, docs, rid)
        old == existing_links(txs, receipt, tid)
    IN [t \in DOMAIN txs |->
           IF t = tid THEN SetLink(txs[t], ManualLink(receipt))
           ELSE IF t \in old THEN SetLink(txs[t], NullLink)
           ELSE txs[t]]

\* Variant: the steal of step 2.5 is committed before the validation of step 3.
manual_match_result_steal_committed(txs, docs, tid, rid, force) ==
    LET st == manual_match_status(txs, docs, tid, rid, force)
        old == existing_links(txs, resolve_receipt(txs, docs, rid), tid)
    IN [status |-> st,
        rows |-> IF st = 200 THEN manual_match_rows(txs, docs, tid, rid)
                 ELSE IF st = 409
                 THEN [t \in DOMAIN txs |->
                          IF t \in old THEN SetLink(txs[t], NullLink) ELSE txs[t]]
                 ELSE txs,
        unlinked |-> IF st = 200 THEN Cardinality(old) ELSE 0]

\* What the handler returns and what it leaves in the store: the status, the
\* rows after db.commit() (the rows before, when an HTTPException is raised
\* first) and the number of previous holders it unlinked.
manual_match_result(txs, docs, tid, rid, force) ==
    LET st == manual_match_status(txs, docs, tid, rid, force)
    IN [status |-> st,
        rows |-> IF st = 200 THEN manual_match_rows(txs, docs, tid, rid) ELSE txs,
        unlinked |-> IF st = 200
                     THEN Cardinality(existing_links(txs,
                              resolve_receipt(txs, docs, rid), tid))
                     ELSE 0]

manual_match_transaction(tid, rid, force) ==
    LET r == manual_match_result(transactions, documents, tid, rid, force)
    IN /\ response' = Resp("manual_match_transaction", r.status, r.unlinked)
       /\ transactions' = r.rows
       /\ UNCHANGED <<documents, tax_analysis, next_doc, next_txn, sessions>>

\* Ids a request may carry: of existing rows, of deleted rows, of rows not
\* created yet; a receipt id may also be a transaction id.
TxnArgs == AllTxnIds
ReceiptArgs == AllDocIds \cup AllTxnIds

manual_match ==
    \E tid \in TxnArgs, rid \in ReceiptArgs, force \in BOOLEAN :
        manual_match_transaction(tid, rid, force)

(***************************************************************************)
(* Referential integrity of the store (app/db/models.py):                  *)
(* receipt_id and document_id are foreign keys to financial_documents, so  *)
(* a flush that deletes a document some surviving row still references     *)
(* raises IntegrityError.                                                  *)
(***************************************************************************)
\* Variant: only document_id is constrained.
ForeignKeyViolation_owner_only(txs, deleted_docs) ==
    \E t \in DOMAIN txs : txs[t].document_id \in deleted_docs

ForeignKeyViolation(txs, deleted_docs) ==
    \E t \in DOMAIN txs :
        \/ txs[t].receipt_id \in deleted_docs
        \/ txs[t].document_id \in deleted_docs

\* ORM cascade of FinancialDocument.transactions (and of
\* Transaction.tax_analysis) when a document is deleted through the session.
CascadeOwned(txs, d) == OwnedBy(txs, d)

(***************************************************************************)
(* delete_document                                                         *)
(***************************************************************************)
\* Variant: delete_document without the unlinking UPDATE.
Unlinked_skipped(txs, d) == txs

\* Variant: the UPDATE clears receipt_id only.
Unlinked_receipt_only(txs, d) ==
    [t \in DOMAIN txs |->
        IF txs[t].receipt_id = d THEN [txs[t] EXCEPT !.receipt_id = NULL]
        ELSE txs[t]]

Unlinked(txs, d) ==
    [t \in DOMAIN txs |->
        IF txs[t].receipt_id = d THEN SetLink(txs[t], NullLink) ELSE txs[t]]

delete_document(d) ==
    IF d \notin DOMAIN documents
    THEN /\ response' = Resp("delete_document", 404, 0)
         /\ UNCHANGED <<store, sessions>>
    ELSE LET unlinked == Unlinked(transactions, d)
             gone == CascadeOwned(unlinked, d)
             keep == (DOMAIN unlinked) \ gone
         IN /\ transactions' = Restrict(unlinked, keep)
            /\ tax_analysis' = Restrict(tax_analysis, (DOMAIN tax_analysis) \ gone)
            /\ documents' = Restrict(documents, (DOMAIN documents) \ {d})
            /\ response' = Resp("delete_document", 204,
                   Cardinality({t \in DOMAIN transactions :
                                   transactions[t].receipt_id = d}))
            /\ UNCHANGED <<next_doc, next_txn, sessions>>

(***************************************************************************)
(* clear_workspace                                                         *)
(***************************************************************************)
txns_to_delete(txs, month, only_unlinked) ==
    {t \in DOMAIN txs : /\ txs[t].competence_month = month
                        /\ txs[t].is_finalized = FALSE
                        /\ only_unlinked => txs[t].receipt_id = NULL}

\* txs: the rows left after step 1.
docs_to_delete(txs, docs, month, only_unlinked) ==
    {d \in DOMAIN docs :
        /\ docs[d].competence_month = month
        /\ ~(\E t \in OwnedBy(txs, d) : txs[t].is_finalized)
        /\ ~(/\ only_unlinked
             /\ docs[d].doc_type = "RECEIPT"
             /\ \E t \in DOMAIN txs : txs[t].receipt_id = d)
        /\ OwnedBy(txs, d) = {}}

\* Variant: step 1 is committed on its own, so a failure of step 2 leaves the
\* transactions and their analysis rows deleted.
clear_workspace_no_rollback(month, only_unlinked) ==
    LET del == txns_to_delete(transactions, month, only_unlinked)
        left == Restrict(transactions, (DOMAIN transactions) \ del)
        ddel == docs_to_delete(left, documents, month, only_unlinked)
    IN /\ transactions' = left
       /\ tax_analysis' = Restrict(tax_analysis, (DOMAIN tax_analysis) \ del)
       /\ IF ForeignKeyViolation(left, ddel)
          THEN /\ response' = Resp("clear_workspace", 500, 0)
               /\ UNCHANGED documents
          ELSE /\ documents' = Restrict(documents, (DOMAIN documents) \ ddel)
               /\ response' = Resp2("clear_workspace", 200, Cardinality(del),
                                    Cardinality(ddel))
       /\ UNCHANGED <<next_doc, next_txn, sessions>>

\* Variant: the two DELETE statements of step 1 in the opposite order.
clear_statements_transactions_first(txs, tas, month, only_unlinked) ==
    LET del == txns_to_delete(txs, month, only_unlinked)
        left == Restrict(txs, (DOMAIN txs) \ del)
    IN << [transactions |-> left, tax_analysis |-> tas],
          [transactions |-> left,
           tax_analysis |-> Restrict(tas, (DOMAIN tas) \ del)] >>

\* The rows as the session sees them after each DELETE statement of step 1:
\* first the tax_analysis rows keyed by txn_ids (line 481), then the
\* transactions themselves (line 484).
clear_statements(txs, tas, month, only_unlinked) ==
    LET del == txns_to_delete(txs, month, only_unlinked)
        kept == Restrict(tas, (DOMAIN tas) \ del)
    IN << [transactions |-> txs, tax_analysis |-> kept],
          [transactions |-> Restrict(txs, (DOMAIN txs) \ del),
           tax_analysis |-> kept] >>

\* What the handler returns and what it leaves in the store: the rows after
\* db.commit(), or the rows before when the flush raises and the except
\* branch rolls back.
clear_result(txs, tas, docs, month, only_unlinked) ==
    LET del == txns_to_delete(txs, month, only_unlinked)
        after == clear_statements(txs, tas, month, only_unlinked)
        left == after[Len(after)].transactions
        ddel == docs_to_delete(left, docs, month, only_unlinked)
    IN IF ForeignKeyViolation(left, ddel)
       THEN \* except Exception: rollback, 500
            [status |-> 500, transactions |-> txs, tax_analysis |-> tas,
             documents |-> docs, deleted_transactions |-> 0,
             deleted_documents |-> 0, analyses |-> 0]
       ELSE [status |-> 200, transactions |-> left,
             tax_analysis |-> after[Len(after)].tax_analysis,
             documents |-> Restrict(docs, (DOMAIN docs) \ ddel),
             deleted_transactions |-> Cardinality(del),
             deleted_documents |-> Cardinality(ddel),
             analyses |-> Cardinality(del \cap DOMAIN tas)]

clear_workspace(month, only_unlinked) ==
    LET r == clear_result(transactions, tax_analysis, documents,
                          month, only_unlinked)
    IN /\ transactions' = r.transactions
       /\ tax_analysis' = r.tax_analysis
       /\ documents' = r.documents
       /\ response' = Resp3("clear_workspace", r.status, r.deleted_transactions,
                            r.deleted_documents, r.analyses)
       /\ UNCHANGED <<next_doc, next_txn, sessions>>

clear ==
    \E month \in Months, only_unlinked \in BOOLEAN :
        clear_workspace(month, only_unlinked)

(***************************************************************************)
(* scripts/reset_db.py                                                     *)
(***************************************************************************)
reset_all ==
    /\ tax_analysis' = <<>>
    /\ transactions' = <<>>
    /\ documents' = <<>>
    /\ response' = Resp("reset_db", 200, 0)
    /\ UNCHANGED <<next_doc, next_txn, sessions>>

reset_month(month, delete_docs) ==
    LET hit == {t \in DOMAIN transactions : MonthOf(transactions[t].date) = month}
        upd == [t \in DOMAIN transactions |->
                   IF t \in hit THEN SetLink(transactions[t], NullLink)
                   ELSE transactions[t]]
        ddel == IF delete_docs
                THEN {d \in DOMAIN documents : documents[d].created_month = month}
                ELSE {}
    IN IF ForeignKeyViolation(upd, ddel)
       THEN \* the exception leaves session.begin(): rollback
            /\ response' = Resp("reset_db", 500, 0)
            /\ UNCHANGED <<store, sessions>>
       ELSE /\ tax_analysis' = Restrict(tax_analysis, (DOMAIN tax_analysis) \ hit)
            /\ transactions' = upd
            /\ documents' = Restrict(documents, (DOMAIN documents) \ ddel)
            /\ response' = Resp2("reset_db", 200, Cardinality(hit), Cardinality(ddel))
            /\ UNCHANGED <<next_doc, next_txn, sessions>>

reset_db ==
    \/ reset_all
    \/ \E month \in Months, delete_docs \in BOOLEAN : reset_month(month, delete_docs)

(***************************************************************************)
(* analyze_transaction_tax and generate_tax_report                         *)
(***************************************************************************)
Classifications == {"Dedutivel", "Nao Dedutivel"}
Deductible == {"Dedutivel", "Parcialmente Dedutivel"}

analyze_transaction_tax(t, classificacao) ==
    IF t \notin DOMAIN transactions
    THEN /\ response' = Resp("analyze_transaction_tax", 404, 0)
         /\ UNCHANGED <<store, sessions>>
    ELSE IF t \in DOMAIN tax_analysis /\ tax_analysis[t].is_manual_override
    THEN /\ response' = Resp("analyze_transaction_tax", 200, 0)
         /\ UNCHANGED <<store, sessions>>
    ELSE /\ t \in DOMAIN tax_analysis \/ Cardinality(DOMAIN tax_analysis) < MaxAnalyses
         /\ tax_analysis' = Extend(tax_analysis, t,
                [classification |-> classificacao, is_manual_override |-> FALSE,
                 raw_analysis |-> TRUE])
         /\ response' = Resp("analyze_transaction_tax", 200, 0)
         /\ UNCHANGED <<documents, transactions, next_doc, next_txn, sessions>>

analyze ==
    \E t \in AllTxnIds, c \in Classifications : analyze_transaction_tax(t, c)

generate_tax_report(month) ==
    LET sel == {t \in DOMAIN transactions :
                   /\ t \in DOMAIN tax_analysis
                   /\ MonthOf(transactions[t].date) = month
                   /\ tax_analysis[t].classification \in Deductible}
    IN IF sel = {}
       THEN /\ response' = Resp("generate_tax_report", 404, 0)
            /\ UNCHANGED <<store, sessions>>
       ELSE /\ transactions' =
                   [t \in DOMAIN transactions |->
                       IF t \in sel
                       THEN [transactions[t] EXCEPT !.is_finalized = TRUE]
                       ELSE transactions[t]]
            /\ response' = Resp("generate_tax_report", 200, Cardinality(sel))
            /\ UNCHANGED <<documents, tax_analysis, next_doc, next_txn, sessions>>

generate_report == \E month \in Months : generate_tax_report(month)

delete_doc == \E d \in AllDocIds : delete_document(d)

(***************************************************************************)
(* update_document: PATCH /documents/{document_id}                         *)
(***************************************************************************)
\* Variant: a correction reopens the transaction it edits.
update_document_reopens(d, amount, date) ==
    /\ d \in DOMAIN documents
    /\ OwnedBy(transactions, d) # {}
    /\ LET tx == SetMin(OwnedBy(transactions, d))
       IN transactions' =
              [transactions EXCEPT
                  ![tx].amount = IF amount # NoAmount THEN amount ELSE @,
                  ![tx].date = IF date # NoDate THEN date ELSE @,
                  ![tx].is_finalized = FALSE]
    /\ response' = Resp("update_document", 200, 0)
    /\ UNCHANGED <<documents, tax_analysis, next_doc, next_txn, sessions>>

\* amount / date: NoAmount / NoDate when the field is absent from the body.
update_document(d, amount, date) ==
    IF d \notin DOMAIN documents
    THEN /\ response' = Resp("update_document", 404, 0)
         /\ UNCHANGED <<store, sessions>>
    ELSE LET owned == OwnedBy(transactions, d)
         IN IF owned # {}
            THEN \* tx = doc.transactions[0]
                 LET tx == SetMin(owned)
                 IN /\ transactions' =
                          [transactions EXCEPT
                              ![tx].amount = IF amount # NoAmount THEN amount ELSE @,
                              ![tx].date = IF date # NoDate THEN date ELSE @]
                    /\ response' = Resp("update_document", 200, 0)
                    /\ UNCHANGED <<documents, tax_analysis, next_doc, next_txn,
                                   sessions>>
            ELSE IF date # NoDate /\ amount # NoAmount
            THEN \* a new transaction for a document that has none
                 /\ next_txn <= MaxTxns
                 /\ transactions' = Extend(transactions, TxnId(next_txn),
                        NewTxn(d, [amount |-> amount, date |-> date,
                                   merchant_name |-> "Manual Entry"], NULL))
                 /\ next_txn' = next_txn + 1
                 /\ response' = Resp("update_document", 200, 1)
                 /\ UNCHANGED <<documents, tax_analysis, next_doc, sessions>>
            ELSE IF date # NoDate \/ amount # NoAmount
            THEN /\ response' = Resp("update_document", 400, 0)
                 /\ UNCHANGED <<store, sessions>>
            ELSE /\ response' = Resp("update_document", 200, 0)
                 /\ UNCHANGED <<store, sessions>>

\* Values a correction may carry.
UpdateAmounts == {NoAmount, 10000}
UpdateDates == {NoDate, 10}

update_doc ==
    \E d \in AllDocIds, amount \in UpdateAmounts, date \in UpdateDates :
        update_document(d, amount, date)

(***************************************************************************)
(* Spec: ingestion and the operations on the link graph.                   *)
(***************************************************************************)
Next ==
    \/ upload_statement
    \/ upload_receipt
    \/ run_auto_reconciliation
    \/ manual_match
    \/ delete_doc
    \/ clear

Spec == Init /\ [][Next]_vars

(***************************************************************************)
(* SpecMatch: matching only, all uploads in one competence period (the     *)
(* period plays no part in run_auto_reconciliation, manual_match_          *)
(* transaction or delete_document).                                        *)
(***************************************************************************)
NextMatch ==
    \/ upload_statement_one_period
    \/ upload_receipt_one_period
    \/ run_auto_reconciliation
    \/ manual_match
    \/ delete_doc

SpecMatch == Init /\ [][NextMatch]_vars

(***************************************************************************)
(* SpecCleanup: ingestion, automatic linking, tax analysis, report         *)
(* generation (which finalizes) and the bulk cleanup / reset operations.   *)
(***************************************************************************)
NextCleanup ==
    \/ upload_statement
    \/ upload_receipt
    \/ run_auto_reconciliation
    \/ analyze
    \/ generate_report
    \/ clear
    \/ reset_db

SpecCleanup == Init /\ [][NextCleanup]_vars

(***************************************************************************)
(* SpecLinks: every operation that writes a link triple, with all uploads  *)
(* in one competence period.                                               *)
(***************************************************************************)
NextLinks ==
    \/ upload_statement_one_period
    \/ upload_receipt_one_period
    \/ run_auto_reconciliation
    \/ manual_match
    \/ delete_doc
    \/ clear
    \/ reset_db

SpecLinks == Init /\ [][NextLinks]_vars

(***************************************************************************)
(* SpecScorer: run_auto_reconciliation over a store ingestion has filled   *)
(* with one bank line and one or two receipt lines, drawn from lines that  *)
(* sit on both sides of every gate of the scorer.  The receipt lines       *)
(* belong to one RECEIPT document (process_document stores every entry of  *)
(* extracted.transactions under the document).                             *)
(***************************************************************************)
ReceiptDay == 10

ScorerBankLines ==
    { [amount |-> a, date |-> ReceiptDay + delta, merchant_name |-> "SURYA DENTAL"] :
          a \in {-10000}, delta \in {-4, -3, -2, -1, 0, 3, 4, 5, 6} }
    \cup
    { [amount |-> a, date |-> ReceiptDay, merchant_name |-> "SURYA DENTAL"] :
          a \in {-10005, -10006, 10000, -105, -150, -10100, -10101} }
    \cup
    { [amount |-> -28191, date |-> ReceiptDay + delta, merchant_name |-> m] :
          delta \in {3, 26, 180, 181}, m \in {"SURYA DENTAL", "PADARIA"} }
    \cup
    { [amount |-> -10000, date |-> ReceiptDay + 30, merchant_name |-> "SURYA DENTAL"] }

ScorerReceiptLines ==
    { [amount |-> a, date |-> ReceiptDay,
       merchant_name |-> "SURYA DENTAL COM PROD ODONT"] :
          a \in {10000, 30000, 84573, 100, 1200} }
    \cup
    { [amount |-> 10000, date |-> ReceiptDay, merchant_name |-> "NFE SURYA DENTAL"] }

\* The store after ingestion of one statement and one receipt document.
Ingested(bank_lines, receipt_lines) ==
    LET nb == Len(bank_lines)
        nr == Len(receipt_lines)
    IN /\ documents =
              (DocId(1) :> [doc_type |-> "BANK_STATEMENT",
                            competence_month |-> UploadMonth,
                            created_month |-> UploadMonth]) @@
              (DocId(2) :> [doc_type |-> "RECEIPT",
                            competence_month |-> UploadMonth,
                            created_month |-> UploadMonth])
       /\ transactions =
              [t \in {TxnId(i) : i \in 1..(nb + nr)} |->
                  IF t - MaxDocs <= nb
                  THEN NewTxn(DocId(1), bank_lines[t - MaxDocs], UploadMonth)
                  ELSE NewTxn(DocId(2), receipt_lines[t - MaxDocs - nb], UploadMonth)]
       /\ tax_analysis = <<>>
       /\ next_doc = 3
       /\ next_txn = nb + nr + 1
       /\ response = NoResponse
       /\ sessions = <<>>

InitScorer ==
    \E b \in ScorerBankLines, r1 \in ScorerReceiptLines :
        \/ Ingested(<<b>>, <<r1>>)
        \/ \E r2 \in ScorerReceiptLines : Ingested(<<b>>, <<r1, r2>>)

SpecScorer == InitScorer /\ [][run_auto_reconciliation]_vars

(***************************************************************************)
(* SpecScores: the two writers of match_score, run_auto_reconciliation and *)
(* manual_match_transaction, over the stores of SpecScorer.                *)
(***************************************************************************)
NextScores ==
    \/ run_auto_reconciliation
    \/ manual_match

SpecScores == InitScorer /\ [][NextScores]_vars

(***************************************************************************)
(* SpecMalformed: run_auto_reconciliation over a store in which a record   *)
(* may carry a null amount or a null date.                                 *)
(***************************************************************************)
MalformedBankLines ==
    { [amount |-> -10000, date |-> NoDate, merchant_name |-> "SURYA DENTAL"],
      [amount |-> NoAmount, date |-> 12, merchant_name |-> "SURYA DENTAL"] }

MalformedReceiptLines ==
    { [amount |-> NoAmount, date |-> 10,
       merchant_name |-> "SURYA DENTAL COM PROD ODONT"],
      [amount |-> 10000, date |-> NoDate,
       merchant_name |-> "SURYA DENTAL COM PROD ODONT"] }

InitMalformed ==
    \E b1 \in BankLines \cup MalformedBankLines,
       r1 \in ReceiptLines \cup MalformedReceiptLines :
        \/ \E b2 \in BankLines \cup MalformedBankLines :
               Ingested(<<b1, b2>>, <<r1>>)
        \/ \E r2 \in ReceiptLines \cup MalformedReceiptLines :
               Ingested(<<b1>>, <<r1, r2>>)

SpecMalformed == InitMalformed /\ [][run_auto_reconciliation]_vars

(***************************************************************************)
(* SpecSelect: run_auto_reconciliation over a store with one bank line and *)
(* two or three receipts, each receipt a document of its own with one      *)
(* transaction, whose amounts, dates and names differ so that a bank line  *)
(* has several candidates of different rank.                               *)
(***************************************************************************)
SelectBankLines ==
    { [amount |-> -10000, date |-> d, merchant_name |-> "SURYA DENTAL"] :
          d \in {ReceiptDay, ReceiptDay + 6} }

SelectReceiptLines ==
    { [amount |-> a, date |-> ReceiptDay + delta, merchant_name |-> m] :
          a \in {10000, 30000}, delta \in {-2, -1, 0, 3},
          m \in {"SURYA DENTAL COM PROD ODONT", "PADARIA"} }

\* Ids of the receipt documents: above the id of every transaction row.
SelectDocId(i) == TxnId(MaxTxns + 1) + i

IngestedEach(bank_line, receipt_lines) ==
    LET nr == Len(receipt_lines)
    IN /\ documents =
              [d \in {DocId(1)} \cup {SelectDocId(i) : i \in 1..nr} |->
                  [doc_type |-> IF d = DocId(1) THEN "BANK_STATEMENT" ELSE "RECEIPT",
                   competence_month |-> UploadMonth,
                   created_month |-> UploadMonth]]
       /\ transactions =
              [t \in {TxnId(i) : i \in 1..(nr + 1)} |->
                  IF t = TxnId(1)
                  THEN NewTxn(DocId(1), bank_line, UploadMonth)
                  ELSE NewTxn(SelectDocId(t - TxnId(1)),
                              receipt_lines[t - TxnId(1)], UploadMonth)]
       /\ tax_analysis = <<>>
       /\ next_doc = nr + 2
       /\ next_txn = nr + 2
       /\ response = NoResponse
       /\ sessions = <<>>

InitSelect ==
    \E b \in SelectBankLines, r1 \in SelectReceiptLines, r2 \in SelectReceiptLines :
        \/ IngestedEach(b, <<r1, r2>>)
        \/ \E r3 \in SelectReceiptLines : IngestedEach(b, <<r1, r2, r3>>)

SpecSelect == InitSelect /\ [][run_auto_reconciliation]_vars

(***************************************************************************)
(* SpecFinal: the operations that may touch a finalized transaction, over  *)
(* a store ingestion has filled with one statement line and a receipt      *)
(* document, with or without an extracted transaction.                     *)
(***************************************************************************)
InitFinal ==
    \E b \in BankLines :
        \/ Ingested(<<b>>, <<>>)
        \/ \E r \in ReceiptLines : Ingested(<<b>>, <<r>>)

NextFinal ==
    \/ run_auto_reconciliation
    \/ manual_match
    \/ update_doc
    \/ analyze
    \/ generate_report
    \/ clear

SpecFinal == InitFinal /\ [][NextFinal]_vars
(***************************************************************************)
(* SpecTax: the tax analysis of reconciled transactions.  An analysis      *)
(* record is keyed by its transaction id; raw_analysis tells whether the   *)
(* record holds the dump of an AI result.                                  *)
(***************************************************************************)
\* A second tax_analysis row for the same transaction id violates the key.
AnalysisKeyViolation(tas, t) == t \in DOMAIN tas

\* PUT /tax-analysis/{transaction_id}
update_tax_analysis(t, classification) ==
    IF t \in DOMAIN tax_analysis
    THEN /\ tax_analysis' = [tax_analysis EXCEPT
                                ![t].classification = classification,
                                ![t].is_manual_override = TRUE]
         /\ response' = Resp("update_tax_analysis", 200, 0)
         /\ UNCHANGED <<documents, transactions, next_doc, next_txn, sessions>>
    ELSE IF t \notin DOMAIN transactions
    THEN /\ response' = Resp("update_tax_analysis", 404, 0)
         /\ UNCHANGED <<store, sessions>>
    ELSE /\ tax_analysis' = Extend(tax_analysis, t,
                [classification |-> classification, is_manual_override |-> TRUE,
                 raw_analysis |-> FALSE])
         /\ response' = Resp("update_tax_analysis", 200, 0)
         /\ UNCHANGED <<documents, transactions, next_doc, next_txn, sessions>>

\* What the language model answers: a classification, or an exception.
AgentOutcomes == Classifications \cup {"LLMError"}

\* Variant: the agent writes its result over the record it found.
agent_result_overwrites(tas, t, outcome) ==
    IF t \in DOMAIN tas /\ tas[t].raw_analysis
    THEN [raised |-> FALSE, tax_analysis |-> tas]
    ELSE IF outcome = "LLMError"
    THEN [raised |-> TRUE, tax_analysis |-> tas]
    ELSE [raised |-> FALSE,
          tax_analysis |-> Extend(tas, t,
              [classification |-> outcome, is_manual_override |-> FALSE,
               raw_analysis |-> TRUE])]

\* TaxExpertAgent.analyze_transaction with a db_session, followed by the
\* caller's commit: the record found with a raw_analysis is returned as it
\* is; otherwise the model is called and a new row is added and flushed.
\* A failing flush is caught by the agent and leaves the session rolled
\* back, so the commit of the caller raises.
agent_result(tas, t, outcome) ==
    IF t \in DOMAIN tas /\ tas[t].raw_analysis
    THEN [raised |-> FALSE, tax_analysis |-> tas]
    ELSE IF outcome = "LLMError"
    THEN [raised |-> TRUE, tax_analysis |-> tas]
    ELSE IF AnalysisKeyViolation(tas, t)
    THEN [raised |-> TRUE, tax_analysis |-> tas]
    ELSE [raised |-> FALSE,
          tax_analysis |-> Extend(tas, t,
              [classification |-> outcome, is_manual_override |-> FALSE,
               raw_analysis |-> TRUE])]

\* POST /analyze/{transaction_id}
analyze_single_transaction(t, outcome) ==
    IF t \notin DOMAIN transactions
    THEN /\ response' = Resp("analyze_single_transaction", 404, 0)
         /\ UNCHANGED <<store, sessions>>
    ELSE LET r == agent_result(tax_analysis, t, outcome)
         IN /\ tax_analysis' = r.tax_analysis
            /\ response' = Resp("analyze_single_transaction",
                                IF r.raised THEN 500 ELSE 200, 0)
            /\ UNCHANGED <<documents, transactions, next_doc, next_txn, sessions>>

\* The transactions a batch run selects: linked to a receipt, no analysis.
pending_txns(txs, tas) ==
    {t \in DOMAIN txs : txs[t].receipt_id # NULL /\ t \notin DOMAIN tas}

\* POST /analyze-batch: every selected transaction goes through the agent
\* and is committed on its own; a failing item is skipped.
analyze_batch(failing, outcome) ==
    LET txs == pending_txns(transactions, tax_analysis)
        done == txs \ failing
    IN /\ tax_analysis' =
              [t \in (DOMAIN tax_analysis) \cup done |->
                  IF t \in done
                  THEN agent_result(tax_analysis, t, outcome).tax_analysis[t]
                  ELSE tax_analysis[t]]
       /\ response' = Resp("analyze_batch", 200, Cardinality(txs))
       /\ UNCHANGED <<documents, transactions, next_doc, next_txn, sessions>>

update_tax ==
    \E t \in AllTxnIds, c \in Classifications : update_tax_analysis(t, c)

analyze_single ==
    \E t \in AllTxnIds, outcome \in AgentOutcomes :
        analyze_single_transaction(t, outcome)

batch ==
    \E failing \in SUBSET AllTxnIds, outcome \in Classifications :
        analyze_batch(failing, outcome)

\* One statement of two lines and one receipt.
InitTax ==
    \E b1 \in BankLines, b2 \in BankLines, r \in ReceiptLines :
        Ingested(<<b1, b2>>, <<r>>)

NextTax ==
    \/ run_auto_reconciliation
    \/ analyze
    \/ update_tax
    \/ analyze_single
    \/ batch

SpecTax == InitTax /\ [][NextTax]_vars

(***************************************************************************)
(* SpecConc: two POST /reconcile requests and one manual match, each in a  *)
(* session of its own over a store that ingestion has filled.  A session   *)
(* first reads (its SELECTs, at read-committed isolation), then computes   *)
(* on the loaded rows, and writes only at db.commit(): the flush emits,    *)
(* for every row whose attributes were assigned, UPDATE transactions SET   *)
(* <changed columns> WHERE id = <row id>.                                  *)
(***************************************************************************)
AutoSessions == {"reconcile_1", "reconcile_2"}
ManualSession == "manual_match"
Sessions == AutoSessions \cup {ManualSession}

IdleSession ==
    [pc |-> "idle", loaded |-> <<>>, pending |-> <<>>, status |-> 0,
     txn |-> NULL, receipt |-> NULL, raced |-> {}]

InitConc ==
    \E l1 \in BankLines, l2 \in BankLines, r \in ReceiptLines :
        /\ documents =
              (DocId(1) :> [doc_type |-> "BANK_STATEMENT",
                            competence_month |-> UploadMonth,
                            created_month |-> UploadMonth]) @@
              (DocId(2) :> [doc_type |-> "RECEIPT",
                            competence_month |-> UploadMonth,
                            created_month |-> UploadMonth])
        /\ transactions =
              (TxnId(1) :> NewTxn(DocId(1), l1, UploadMonth)) @@
              (TxnId(2) :> NewTxn(DocId(1), l2, UploadMonth)) @@
              (TxnId(3) :> NewTxn(DocId(2), r, UploadMonth))
        /\ tax_analysis = <<>>
        /\ next_doc = 3
        /\ next_txn = 4
        /\ response = NoResponse
        /\ sessions = [p \in Sessions |-> IdleSession]

\* The UPDATE statements of a flush: a column is written when the value
\* assigned in the session differs from the value the session loaded.
Flush(txs, loaded, pending) ==
    [t \in DOMAIN txs |->
        IF t \in DOMAIN pending
        THEN [txs[t] EXCEPT
                 !.receipt_id = IF pending[t].receipt_id # loaded[t].receipt_id
                                THEN pending[t].receipt_id ELSE @,
                 !.match_score = IF pending[t].match_score # loaded[t].match_score
                                 THEN pending[t].match_score ELSE @,
                 !.match_type = IF pending[t].match_type # loaded[t].match_type
                                THEN pending[t].match_type ELSE @]
        ELSE txs[t]]

\* Lines 15-186 of run_auto_reconciliation: the two SELECTs and the loop.
AutoRead(p) ==
    /\ sessions[p].pc = "idle"
    /\ LET M == matched(transactions, documents)
       IN sessions' = [sessions EXCEPT ![p] =
              [@ EXCEPT !.pc = "read",
                        !.loaded = transactions,
                        !.pending = [t \in M |->
                            auto_link(transactions, documents, t)]]]
    /\ UNCHANGED <<store, response>>

\* Line 196 of run_auto_reconciliation: session.commit().
AutoCommit(p) ==
    /\ sessions[p].pc = "read"
    /\ transactions' = Flush(transactions, sessions[p].loaded, sessions[p].pending)
    /\ sessions' = [sessions EXCEPT ![p] = [@ EXCEPT !.pc = "done", !.status = 200]]
    /\ response' = Resp("run_auto_reconciliation", 200,
                        Cardinality(DOMAIN sessions[p].pending))
    /\ UNCHANGED <<documents, tax_analysis, next_doc, next_txn>>

\* Variant: the run commits after every accepted link, so a failure on the
\* way leaves the first link in the store.
RolledBack_first_link_kept(txs, loaded, pending) ==
    IF DOMAIN pending = {} THEN txs
    ELSE Flush(txs, loaded, Restrict(pending, {SetMin(DOMAIN pending)}))

\* The store after the session is left without commit(): the only commit of
\* the run is at line 196, so nothing the run assigned has been written.
RolledBack(txs, loaded, pending) == txs

\* run_auto_reconciliation raises between its SELECTs and the return of
\* session.commit(): the exception leaves "async with AsyncSessionLocal()"
\* of reconcile_transactions, which closes the session.
AutoAbort(p) ==
    /\ sessions[p].pc = "read"
    /\ transactions' = RolledBack(transactions, sessions[p].loaded,
                                  sessions[p].pending)
    /\ sessions' = [sessions EXCEPT ![p] = [@ EXCEPT !.pc = "done", !.status = 500]]
    /\ response' = Resp("run_auto_reconciliation", 500, 0)
    /\ UNCHANGED <<documents, tax_analysis, next_doc, next_txn>>

\* Lines 369-441 of manual_match_transaction: lookups, steal, validation
\* and the assignments, all on the rows the session loaded.
ManualRead(tid, rid, force) ==
    /\ sessions[ManualSession].pc = "idle"
    /\ LET st == manual_match_status(transactions, documents, tid, rid, force)
           receipt == resolve_receipt(transactions, documents, rid)
           rows == manual_match_rows(transactions, documents, tid, rid)
           touched == {tid} \cup existing_links(transactions, receipt, tid)
       IN IF st = 200
          THEN /\ sessions' = [sessions EXCEPT ![ManualSession] =
                      [@ EXCEPT !.pc = "read",
                                !.loaded = transactions,
                                !.pending = [t \in touched |-> LinkOf(rows[t])],
                                !.txn = tid,
                                !.receipt = receipt]]
               /\ UNCHANGED response
          ELSE /\ sessions' = [sessions EXCEPT ![ManualSession] =
                      [@ EXCEPT !.pc = "done", !.status = st]]
               /\ response' = Resp("manual_match_transaction", st, 0)
    /\ UNCHANGED store

\* Line 444 of manual_match_transaction: db.commit().  raced records the
\* reconcile sessions that loaded txn unlinked and have not committed yet.
ManualCommit ==
    /\ sessions[ManualSession].pc = "read"
    /\ transactions' = Flush(transactions, sessions[ManualSession].loaded,
                             sessions[ManualSession].pending)
    /\ sessions' = [sessions EXCEPT ![ManualSession] =
           [@ EXCEPT !.pc = "done", !.status = 200,
                     !.raced = {p \in AutoSessions :
                                   /\ sessions[p].pc = "read"
                                   /\ sessions[p].loaded[sessions[ManualSession].txn].receipt_id = NULL}]]
    /\ response' = Resp("manual_match_transaction", 200, 0)
    /\ UNCHANGED <<documents, tax_analysis, next_doc, next_txn>>

auto_read == \E p \in AutoSessions : AutoRead(p)

auto_commit == \E p \in AutoSessions : AutoCommit(p)

auto_abort == \E p \in AutoSessions : AutoAbort(p)

manual_read ==
    \E tid \in TxnArgs, rid \in ReceiptArgs, force \in BOOLEAN :
        ManualRead(tid, rid, force)

NextConc ==
    \/ auto_read
    \/ auto_commit
    \/ auto_abort
    \/ manual_read
    \/ ManualCommit

SpecConc == InitConc /\ [][NextConc]_vars

(***************************************************************************)
(* SpecUpload: POST /upload requests served concurrently.  A request       *)
(* first looks for a document with the hash of its content                 *)
(* (_handle_upload), then process_document inserts the document as PENDING *)
(* in a session of its own, runs the processing graph, and in a third      *)
(* session writes the outcome.  Each of the three is one transaction; the  *)
(* awaits between them let other requests run.                             *)
(***************************************************************************)
Uploads == {"upload_1", "upload_2"}
Hashes == {"sha_a", "sha_b"}
Extensions == {".xml", ".csv", ".pdf", ".txt"}
ExpectedTypes == {"None", "BANK_STATEMENT", "RECEIPT"}

IdleUpload ==
    [pc |-> "idle", file_hash |-> "None", ext |-> "None",
     expected_type |-> "None", doc_id |-> NULL, status |-> 0]

InitUpload ==
    /\ documents = <<>>
    /\ transactions = <<>>
    /\ tax_analysis = <<>>
    /\ next_doc = 1
    /\ next_txn = 1
    /\ response = NoResponse
    /\ sessions = [p \in Uploads |-> IdleUpload]

\* financial_documents.file_hash is unique: the INSERT of a second row with
\* the same hash raises IntegrityError at commit.
UniqueViolation(docs, h) == \E d \in DOMAIN docs : docs[d].file_hash = h

route_file(ext) ==
    IF ext = ".xml" THEN "parse_xml"
    ELSE IF ext = ".csv" THEN "parse_csv"
    ELSE IF ext = ".pdf" THEN "extract_pdf_text"
    ELSE "END"

\* The state the graph ends in: error, and extracted_data as the type and
\* the rows it yields (its transactions, or the single row of a receipt
\* whose amount was extracted).
Failed(msg) == [error |-> msg, extracted |-> "None", lines |-> <<>>]

Extracted(doc_type, lines) ==
    [error |-> "None", extracted |-> doc_type, lines |-> lines]

\* Neither key is set when the graph ends at detect_file_type.
Untouched == [error |-> "None", extracted |-> "None", lines |-> <<>>]

\* ainvoke itself raised.
Raised == [error |-> "raised", extracted |-> "None", lines |-> <<>>]

parse_xml_results ==
    {Failed("XML Parsing failed"), Extracted("RECEIPT", <<>>)}
    \cup {Extracted("RECEIPT", <<r>>) : r \in ReceiptLines}

parse_csv_results ==
    {Failed("CSV Parsing failed"), Extracted("BANK_STATEMENT", <<>>)}
    \cup {Extracted("BANK_STATEMENT", <<b>>) : b \in BankLines}

\* extract_pdf_text, then route_after_extraction and extract_structured_data.
extract_pdf_results ==
    {Failed("PASSWORD_REQUIRED"), Failed("Invalid Password"),
     Failed("PDF Extraction failed"), Failed("Data extraction failed"),
     Extracted("UNKNOWN", <<>>)}
    \cup {Extracted("RECEIPT", <<r>>) : r \in ReceiptLines}
    \cup {Extracted("BANK_STATEMENT", <<b>>) : b \in BankLines}

app_processor(ext) ==
    LET node == route_file(ext)
    IN IF node = "parse_xml" THEN parse_xml_results
       ELSE IF node = "parse_csv" THEN parse_csv_results
       ELSE IF node = "extract_pdf_text" THEN extract_pdf_results
       ELSE {Untouched}

IsPasswordError(error) == error \in {"PASSWORD_REQUIRED", "Invalid Password"}

FinishUpload(p, st, c) ==
    /\ sessions' = [sessions EXCEPT ![p] =
           [IdleUpload EXCEPT !.pc = "done", !.status = st,
                              !.file_hash = sessions[p].file_hash,
                              !.doc_id = sessions[p].doc_id]]
    /\ response' = Resp("upload", st, c)

\* _handle_upload, step 1: the SELECT by file_hash and the 409.
check_duplicate(p, h, ext, expected_type) ==
    /\ sessions[p].pc \in {"idle", "done"}
    /\ next_doc <= MaxDocs
    /\ IF \E d \in DOMAIN documents : documents[d].file_hash = h
       THEN /\ sessions' = [sessions EXCEPT ![p] =
                   [IdleUpload EXCEPT !.pc = "done", !.file_hash = h,
                                      !.status = 409]]
            /\ response' = Resp("upload", 409, 0)
       ELSE /\ sessions' = [sessions EXCEPT ![p] =
                   [IdleUpload EXCEPT !.pc = "saved", !.file_hash = h,
                                      !.ext = ext,
                                      !.expected_type = expected_type]]
            /\ UNCHANGED response
    /\ UNCHANGED store

\* process_document, step 1: the PENDING row is inserted and committed; an
\* exception here leaves process_document and becomes the 500 of
\* _handle_upload.
create_pending(p) ==
    /\ sessions[p].pc = "saved"
    /\ next_doc <= MaxDocs
    /\ IF UniqueViolation(documents, sessions[p].file_hash)
       THEN /\ FinishUpload(p, 500, 0)
            /\ UNCHANGED store
       ELSE /\ documents' = Extend(documents, DocId(next_doc),
                   [doc_type |-> IF sessions[p].expected_type = "None"
                                 THEN "UNKNOWN"
                                 ELSE sessions[p].expected_type,
                    status |-> "PENDING",
                    file_hash |-> sessions[p].file_hash,
                    competence_month |-> UploadMonth,
                    created_month |-> UploadMonth])
            /\ next_doc' = next_doc + 1
            /\ sessions' = [sessions EXCEPT ![p].pc = "pending",
                                            ![p].doc_id = DocId(next_doc)]
            /\ UNCHANGED <<transactions, tax_analysis, next_txn, response>>

\* process_document, steps 2 and 3, and the answer of _handle_upload: the
\* graph runs, then one session writes the outcome to the document row.
update_entry(p, result) ==
    LET d == sessions[p].doc_id
        newIds == {TxnId(next_txn + i - 1) : i \in 1..Len(result.lines)}
    IN /\ sessions[p].pc = "pending"
       /\ IF result = Raised
          THEN \* except Exception around ainvoke
               /\ documents' = IF d \in DOMAIN documents
                               THEN [documents EXCEPT ![d].status = "ERROR"]
                               ELSE documents
               /\ UNCHANGED <<transactions, next_txn>>
               /\ FinishUpload(p, 200, 0)
          ELSE IF d \notin DOMAIN documents
          THEN /\ UNCHANGED <<documents, transactions, next_txn>>
               /\ FinishUpload(p, IF IsPasswordError(result.error)
                                  THEN 400 ELSE 200, 0)
          ELSE IF result.error # "None"
          THEN IF IsPasswordError(result.error)
               THEN /\ documents' = Restrict(documents, (DOMAIN documents) \ {d})
                    /\ UNCHANGED <<transactions, next_txn>>
                    /\ FinishUpload(p, 400, 0)
               ELSE /\ documents' = [documents EXCEPT ![d].status = "ERROR"]
                    /\ UNCHANGED <<transactions, next_txn>>
                    /\ FinishUpload(p, 200, 0)
          ELSE IF result.extracted # "None"
          THEN /\ documents' =
                     [documents EXCEPT
                         ![d].status = "PROCESSED",
                         ![d].doc_type =
                             IF sessions[p].expected_type = "None"
                             THEN result.extracted
                             ELSE sessions[p].expected_type]
               /\ transactions' =
                     [t \in (DOMAIN transactions) \cup newIds |->
                         IF t \in newIds
                         THEN NewTxn(d, result.lines[t - TxnId(next_txn) + 1],
                                     UploadMonth)
                         ELSE transactions[t]]
               /\ next_txn' = next_txn + Len(result.lines)
               /\ FinishUpload(p, 200, Len(result.lines))
          ELSE \* neither error nor extracted_data: the row is committed as is
               /\ UNCHANGED <<documents, transactions, next_txn>>
               /\ FinishUpload(p, 200, 0)
       /\ UNCHANGED <<tax_analysis, next_doc>>

upload_check ==
    \E p \in Uploads, h \in Hashes, ext \in Extensions,
       expected_type \in ExpectedTypes :
        check_duplicate(p, h, ext, expected_type)

upload_create == \E p \in Uploads : create_pending(p)

upload_finish ==
    \E p \in Uploads :
        \E result \in app_processor(sessions[p].ext) \cup {Raised} :
            update_entry(p, result)

NextUpload ==
    \/ upload_check
    \/ upload_create
    \/ upload_finish

SpecUpload == InitUpload /\ [][NextUpload]_vars

(***************************************************************************)
(* Properties.                                                             *)
(***************************************************************************)
Holders(d) == {t \in DOMAIN transactions : transactions[t].receipt_id = d}

IsReceiptDoc(d) == d \in DOMAIN documents /\ documents[d].doc_type = "RECEIPT"

\* C1: for every receipt document, at most one transaction has that document
\* as its receipt_id, in every reachable state.
C1_Exclusivity ==
    \A d \in DOMAIN documents :
        documents[d].doc_type = "RECEIPT" => Cardinality(Holders(d)) <= 1

\* C2: a cleanup or reset step (clear_workspace, reset_db) removes neither a
\* finalized transaction nor the document that owns it.
C2_FinalizedSurviveCleanupAndReset ==
    [][response'.op \in {"clear_workspace", "reset_db"} =>
          \A t \in DOMAIN transactions :
              transactions[t].is_finalized =>
                  /\ t \in DOMAIN transactions'
                  /\ transactions[t].document_id \in DOMAIN documents']_vars

\* C3: a run_auto_reconciliation step leaves the link triple of every
\* transaction that carries match_type = MANUAL unchanged.
C3_ManualOverridePrecedence ==
    [][response'.op = "run_auto_reconciliation" =>
          \A t \in DOMAIN transactions :
              transactions[t].match_type = "MANUAL" =>
                  /\ t \in DOMAIN transactions'
                  /\ LinkOf(transactions'[t]) = LinkOf(transactions[t])]_vars

C3_Witness ==
    /\ response.op = "run_auto_reconciliation"
    /\ \E t \in DOMAIN transactions :
          /\ transactions[t].match_type = "MANUAL"
          /\ DocTypeOf(transactions, documents, t) = "BANK_STATEMENT"

\* C4: in the state a run_auto_reconciliation leaves behind, the next run
\* finds no match: run again with nothing in between, it reports
\* matches_found = 0 and writes no link triple.
C4_AutoReconcileIdempotent ==
    response.op = "run_auto_reconciliation" =>
        /\ Cardinality(matched(transactions, documents)) = 0
        /\ \A t \in bank_transactions(transactions, documents) :
              ~accepted(transactions, documents, t)

C4_Witness ==
    /\ response.op = "run_auto_reconciliation"
    /\ response.count = 0
    /\ \E t \in DOMAIN transactions : transactions[t].match_type = "AUTO"
    /\ \E t \in DOMAIN transactions :
          /\ DocTypeOf(transactions, documents, t) = "BANK_STATEMENT"
          /\ transactions[t].receipt_id = NULL

\* The amount check of a manual match passes: the receipt owns no
\* transaction, or the magnitudes differ by at most 0.05.
AmountCheckPasses(tid, d) ==
    \/ \A o \in DOMAIN transactions : transactions[o].document_id # d
    \/ LET first == SetMin({o \in DOMAIN transactions :
                                transactions[o].document_id = d})
       IN Abs(Abs(transactions[tid].amount) - Abs(transactions[first].amount)) <= 5

\* C5: a manual match of an existing transaction T with a RECEIPT document R,
\* forced or passing the amount check, answers 200 and leaves T linked to R
\* with score 1.0 and type MANUAL, and every other previous holder of R with
\* a null triple; checked for every such request in every reachable store.
C5_ManualMatchPostState ==
    \A tid \in DOMAIN transactions, rid \in DOMAIN documents, force \in BOOLEAN :
        (/\ IsReceiptDoc(rid)
         /\ force \/ AmountCheckPasses(tid, rid)) =>
            LET r == manual_match_result(transactions, documents, tid, rid, force)
            IN /\ r.status = 200
               /\ r.rows[tid].receipt_id = rid
               /\ r.rows[tid].match_score = 100
               /\ r.rows[tid].match_type = "MANUAL"
               /\ \A o \in Holders(rid) \ {tid} :
                     /\ r.rows[o].receipt_id = NULL
                     /\ r.rows[o].match_score = NoScore
                     /\ r.rows[o].match_type = NoType

C5_Witness ==
    /\ response.op = "manual_match_transaction"
    /\ response.status = 200
    /\ response.count >= 1
    /\ \E t \in DOMAIN transactions :
          /\ transactions[t].match_type = "MANUAL"
          /\ Holders(transactions[t].receipt_id) = {t}

\* C6: a manual match with force = false whose amount magnitudes differ by
\* more than 0.05 fails with 409 and leaves every transaction as it was;
\* checked for every such request in every reachable store.
C6_DiscrepancyRejectionNoChange ==
    \A tid \in DOMAIN transactions, rid \in DOMAIN documents :
        (/\ IsReceiptDoc(rid)
         /\ ~AmountCheckPasses(tid, rid)) =>
            LET r == manual_match_result(transactions, documents, tid, rid, FALSE)
            IN /\ r.status = 409
               /\ r.unlinked = 0
               /\ r.rows = transactions

C6_Witness ==
    /\ response.op = "manual_match_transaction"
    /\ response.status = 409
    /\ \E d \in DOMAIN documents : Holders(d) # {}

\* The receipt id of a manual match resolves to a document: directly, or as
\* the owning document of the transaction with that id.
Resolves(rid) ==
    \/ rid \in DOMAIN documents
    \/ /\ rid \in DOMAIN transactions
       /\ transactions[rid].document_id \in DOMAIN documents

ResolvedDoc(rid) ==
    IF rid \in DOMAIN documents THEN rid ELSE transactions[rid].document_id

\* C7: a manual match fails with 404 when the transaction does not exist or
\* the receipt id does not resolve, with 400 when the resolved document is
\* not a RECEIPT, and in these cases no transaction is changed; checked for
\* every such request in every reachable store.
C7_ManualMatchArgumentValidation ==
    \A tid \in TxnArgs, rid \in ReceiptArgs, force \in BOOLEAN :
        LET r == manual_match_result(transactions, documents, tid, rid, force)
        IN /\ (tid \notin DOMAIN transactions \/ ~Resolves(rid)) =>
                 (r.status = 404 /\ r.rows = transactions)
           /\ (/\ tid \in DOMAIN transactions
               /\ Resolves(rid)
               /\ documents[ResolvedDoc(rid)].doc_type # "RECEIPT") =>
                 (r.status = 400 /\ r.rows = transactions)

C7_Witness ==
    /\ response.op = "manual_match_transaction"
    /\ response.status = 400
    /\ \E d \in DOMAIN documents : Holders(d) # {}

\* C8: every transaction with a non-null receipt_id references a document
\* that exists and has doc_type = RECEIPT.
C8_ReceiptReferenceValid ==
    \A t \in DOMAIN transactions :
        transactions[t].receipt_id # NULL => IsReceiptDoc(transactions[t].receipt_id)

C8_Witness ==
    /\ response.op = "clear_workspace"
    /\ response.status = 200
    /\ response.count >= 1
    /\ \E t \in DOMAIN transactions : transactions[t].receipt_id # NULL

AutoDone == \A p \in AutoSessions : sessions[p].pc = "done"

FullHolders(d) ==
    {t \in DOMAIN transactions : /\ transactions[t].receipt_id = d
                                 /\ transactions[t].match_type = "AUTO"}

\* C9: once both concurrent run_auto_reconciliation executions have
\* committed, no receipt is held as a full (non-installment) match by two
\* different bank transactions.
C9_ConcurrentRunsAwardOnce ==
    AutoDone =>
        \A d \in DOMAIN documents : Cardinality(FullHolders(d)) <= 1

\* C10: when the manual match committed a MANUAL link on T while a
\* reconcile session that had read T as unlinked was still uncommitted,
\* then after both have committed T still carries the manual triple.
C10_ManualLinkSurvivesConcurrentRun ==
    LET m == sessions[ManualSession]
    IN (/\ m.pc = "done"
        /\ m.status = 200
        /\ m.raced # {}
        /\ \A p \in m.raced : sessions[p].pc = "done") =>
           LinkOf(transactions[m.txn]) = ManualLink(m.receipt)

\* C11: the links a run_auto_reconciliation accepted reach the store in one
\* step, its commit, all of them together; the read phase writes nothing, and
\* a run that fails before or in its commit leaves every transaction as it
\* was.
C11_AutoRunAllOrNothing ==
    [][\A p \in AutoSessions :
          /\ (sessions[p].pc = "idle" /\ sessions'[p].pc = "read") =>
                transactions' = transactions
          /\ (sessions[p].pc = "read" /\ sessions'[p].pc = "done") =>
                IF sessions'[p].status = 200
                THEN \A t \in DOMAIN sessions[p].pending :
                         LinkOf(transactions'[t]) = sessions[p].pending[t]
                ELSE transactions' = transactions]_vars

C11_Witness ==
    \E p \in AutoSessions :
        /\ sessions[p].pc = "done"
        /\ sessions[p].status = 500
        /\ Cardinality(DOMAIN sessions[p].pending) = 2
        /\ \A t \in DOMAIN sessions[p].pending : LinkOf(transactions[t]) = NullLink

\* The rows whose amount and date are both present.
WellFormed(txs) ==
    Restrict(txs, {t \in DOMAIN txs : txs[t].amount # NoAmount /\ txs[t].date # NoDate})

BankRows == {t \in DOMAIN transactions :
                DocTypeOf(transactions, documents, t) = "BANK_STATEMENT"}

ReceiptRows == {t \in DOMAIN transactions :
                   DocTypeOf(transactions, documents, t) = "RECEIPT"}

\* C13: with delta = bank date - receipt date, a pair whose amounts match
\* exactly survives the date gate of a run_auto_reconciliation if and only
\* if -1 <= delta <= 5, and the run links a bank transaction as a full match
\* only to a receipt with such a pair.
C13_AsymmetricDateWindow ==
    [][(response'.op = "run_auto_reconciliation" /\ response'.status = 200) =>
          \A bt \in bank_transactions(transactions, documents) :
              LET b == transactions[bt]
                  after == transactions'[bt]
                  exact == {rt \in ReceiptRows : is_1to1(b, transactions[rt])}
              IN /\ \A rt \in exact :
                       rt \in candidates(transactions, documents, bt)
                           <=> (b.date - transactions[rt].date) \in -1..5
                 /\ after.match_type = "AUTO" =>
                       \E rt \in exact \cap OwnedBy(transactions, after.receipt_id) :
                           (b.date - transactions[rt].date) \in -1..5]_vars

\* The installment counts the claim allows for a pair.
ClaimedHits(b, r) ==
    {n \in 2..12 : Abs(n * Abs(b.amount) - Abs(r.amount)) <= 100 * n}

ClaimedExact(b, r) == Abs(Abs(b.amount) - Abs(r.amount)) <= 5

\* C14: run_auto_reconciliation classifies a pair as exact if and only if
\* its magnitudes differ by at most 0.05, otherwise as installment-n for the
\* first n in 2..12 with | |bank| - |receipt|/n | <= 1.0, and never links a
\* bank transaction to a receipt with which it has neither.
C14_AmountGate ==
    [][(response'.op = "run_auto_reconciliation" /\ response'.status = 200) =>
          \A bt \in bank_transactions(transactions, documents) :
              LET b == transactions[bt]
                  after == transactions'[bt]
                  linked == OwnedBy(transactions, after.receipt_id)
              IN /\ \A rt \in ReceiptRows :
                       LET r == transactions[rt]
                       IN /\ is_1to1(b, r) <=> ClaimedExact(b, r)
                          /\ is_installment(b, r) <=>
                                (~ClaimedExact(b, r) /\ ClaimedHits(b, r) # {})
                          /\ is_installment(b, r) =>
                                \A n \in ClaimedHits(b, r) : installment_n(b, r) <= n
                          /\ (~ClaimedExact(b, r) /\ ClaimedHits(b, r) = {}) =>
                                rt \notin candidates(transactions, documents, bt)
                 /\ after.match_type = "AUTO" =>
                       \E rt \in linked : ClaimedExact(b, transactions[rt])
                 /\ (after.receipt_id # NULL /\ after.match_type # "AUTO") =>
                       \E rt \in linked :
                           /\ ~ClaimedExact(b, transactions[rt])
                           /\ ClaimedHits(b, transactions[rt]) # {}]_vars

\* An installment pair with a name similarity of at least 85 whose dates are
\* at most 180 days apart.
SoundInstallmentPair(b, r) ==
    /\ is_installment(b, r)
    /\ name_score(b, r) >= 85
    /\ Abs(b.date - r.date) <= 180

\* C15: a run_auto_reconciliation writes an INSTALLMENT link only for a pair
\* with name similarity >= 85 and dates at most 180 days apart, and a bank
\* transaction that has such a pair is not left unmatched because of the
\* dates of the pair.
C15_InstallmentSafetyRail ==
    [][(response'.op = "run_auto_reconciliation" /\ response'.status = 200) =>
          \A bt \in bank_transactions(transactions, documents) :
              LET b == transactions[bt]
                  after == transactions'[bt]
              IN /\ (after.receipt_id # NULL /\ after.match_type # "AUTO") =>
                       \E rt \in OwnedBy(transactions, after.receipt_id) :
                           SoundInstallmentPair(b, transactions[rt])
                 /\ (\E rt \in ReceiptRows : SoundInstallmentPair(b, transactions[rt])) =>
                       after.receipt_id # NULL]_vars

\* The records of the scenario: the bank line is dated 26 days after the
\* receipt.
ScenarioBank ==
    [amount |-> -28191, date |-> ReceiptDay + 26, merchant_name |-> "SURYA DENTAL"]

ScenarioReceipt ==
    [amount |-> 84573, date |-> ReceiptDay,
     merchant_name |-> "SURYA DENTAL COM PROD ODONT"]

IsLine(row, line) ==
    /\ row.amount = line.amount
    /\ row.date = line.date
    /\ row.merchant_name = line.merchant_name

C17_SameRunReceiptExclusion ==
    [][response'.op = "run_auto_reconciliation" =>
          \A t1, t2 \in bank_transactions(transactions, documents) :
              (/\ t1 # t2
               /\ transactions'[t1].match_type = "AUTO"
               /\ transactions'[t2].match_type = "AUTO") =>
                  transactions'[t1].receipt_id # transactions'[t2].receipt_id]_vars

\* The transactions the claim selects for deletion.
ClaimedTxns(month, only_unlinked) ==
    {t \in DOMAIN transactions :
        /\ transactions[t].competence_month = month
        /\ ~transactions[t].is_finalized
        /\ only_unlinked => transactions[t].receipt_id = NULL}

\* C18: clear_workspace(month, year, only_unlinked) deletes exactly the
\* transactions of the period that are not finalized and, under
\* only_unlinked, not linked; every other transaction is still there with
\* all its fields unchanged.
C18_CleanupTransactionSelection ==
    [][\A month \in Months, only_unlinked \in BOOLEAN :
          clear_workspace(month, only_unlinked) =>
              /\ DOMAIN transactions' =
                     (DOMAIN transactions) \ ClaimedTxns(month, only_unlinked)
              /\ \A t \in DOMAIN transactions' :
                     transactions'[t] = transactions[t]]_vars

\* The documents the claim selects for deletion: in the period, owning no
\* finalized transaction, under only_unlinked not the receipt of any
\* transaction, and owning no transaction once ClaimedTxns are gone.
ClaimedDocs(month, only_unlinked) ==
    LET left == (DOMAIN transactions) \ ClaimedTxns(month, only_unlinked)
    IN {d \in DOMAIN documents :
           /\ documents[d].competence_month = month
           /\ \A t \in DOMAIN transactions :
                 transactions[t].document_id = d => ~transactions[t].is_finalized
           /\ only_unlinked => \A t \in left : transactions[t].receipt_id # d
           /\ \A t \in left : transactions[t].document_id # d}

\* C19: clear_workspace deletes a document if and only if it is one of
\* ClaimedDocs, and no surviving transaction is owned by a deleted document.
C19_CleanupDocumentSelection ==
    [][\A month \in Months, only_unlinked \in BOOLEAN :
          clear_workspace(month, only_unlinked) =>
              /\ DOMAIN documents' =
                     (DOMAIN documents) \ ClaimedDocs(month, only_unlinked)
              /\ \A t \in DOMAIN transactions' :
                     transactions'[t].document_id \in DOMAIN documents']_vars

\* C20: a clear_workspace step, whatever only_unlinked is, keeps every
\* document that a finalized transaction holds as its receipt.
C20_EvidenceSurvivesClear ==
    [][response'.op = "clear_workspace" =>
          \A t \in DOMAIN transactions :
              (transactions[t].is_finalized /\ transactions[t].receipt_id # NULL) =>
                  transactions[t].receipt_id \in DOMAIN documents']_vars

C20_Witness ==
    /\ response.op = "clear_workspace"
    /\ response.status = 200
    /\ response.count >= 1
    /\ \E t \in DOMAIN transactions :
          /\ transactions[t].is_finalized
          /\ IsReceiptDoc(transactions[t].receipt_id)
          /\ OwnedBy(transactions, transactions[t].receipt_id) = {}

\* C21: a clear_workspace that fails (it answers 500) leaves the record store
\* with exactly the transactions, analysis records and documents it held
\* before the call.
C21_CleanupAllOrNothing ==
    [][(response'.op = "clear_workspace" /\ response'.status # 200) =>
          /\ transactions' = transactions
          /\ tax_analysis' = tax_analysis
          /\ documents' = documents]_vars

\* A failed cleanup whose step 1 had selected a transaction with an analysis
\* record.
C21_Witness ==
    /\ response.op = "clear_workspace"
    /\ response.status = 500
    /\ \E month \in Months, only_unlinked \in BOOLEAN :
          LET del == txns_to_delete(transactions, month, only_unlinked)
              left == Restrict(transactions, (DOMAIN transactions) \ del)
          IN /\ del \cap DOMAIN tax_analysis # {}
             /\ ForeignKeyViolation(left,
                    docs_to_delete(left, documents, month, only_unlinked))

PairAlone(bt, rt) == Restrict(transactions, {bt, rt})

\* C23: the decision and the score a run_auto_reconciliation computes for
\* the selected pair of a bank transaction are those it computes for that
\* pair alone, whatever other receipt transactions the store holds and in
\* whatever order they are iterated.
C23_ScorerIndependence ==
    [][(response'.op = "run_auto_reconciliation" /\ response'.status = 200) =>
          \A bt \in bank_transactions(transactions, documents) :
              candidates(transactions, documents, bt) # {} =>
                  LET rt == best(transactions, documents, bt)
                      alone == PairAlone(bt, rt)
                  IN /\ accepted(transactions, documents, bt)
                        <=> accepted(alone, documents, bt)
                     /\ final_score(transactions, documents, bt)
                        = final_score(alone, documents, bt)
                     /\ LinkOf(transactions'[bt]) =
                           IF accepted(alone, documents, bt)
                           THEN auto_link(alone, documents, bt)
                           ELSE NullLink]_vars

\* C24: a run_auto_reconciliation step changes nothing but the link triple
\* of transactions that are owned by a BANK_STATEMENT document and had a
\* null receipt_id before the step: it neither adds nor removes a
\* transaction, leaves every other transaction as it was, and leaves every
\* field outside the link triple of every transaction as it was.
C24_AutoReconcileFrame ==
    [][response'.op = "run_auto_reconciliation" =>
          /\ DOMAIN transactions' = DOMAIN transactions
          /\ \A t \in DOMAIN transactions :
                /\ ~(/\ DocTypeOf(transactions, documents, t) = "BANK_STATEMENT"
                     /\ transactions[t].receipt_id = NULL) =>
                       transactions'[t] = transactions[t]
                /\ transactions'[t] =
                       SetLink(transactions[t], LinkOf(transactions'[t]))]_vars

\* A run has linked one bank transaction while another one carried a manual
\* link and a receipt transaction was in the store.
C24_Witness ==
    /\ response.op = "run_auto_reconciliation"
    /\ response.count >= 1
    /\ \E t \in BankRows : transactions[t].match_type = "MANUAL"
    /\ \E t \in BankRows : transactions[t].match_type = "AUTO"
    /\ ReceiptRows # {}

\* C25: a run_auto_reconciliation or manual_match_transaction step creates
\* and deletes no transaction and no document and changes no field of a
\* transaction outside its link triple; and no step of any operation changes
\* the document_id of a transaction that exists before and after it.
C25_EngineLifecycle ==
    [][/\ response'.op \in {"run_auto_reconciliation", "manual_match_transaction"} =>
             /\ DOMAIN transactions' = DOMAIN transactions
             /\ documents' = documents
             /\ \A t \in DOMAIN transactions :
                   transactions'[t] =
                       SetLink(transactions[t], LinkOf(transactions'[t]))
       /\ \A t \in (DOMAIN transactions) \cap (DOMAIN transactions') :
             transactions'[t].document_id = transactions[t].document_id]_vars

\* A manual match has taken a receipt from its previous holder: both
\* transactions are still there, each under its own document.
C25_Witness ==
    /\ response.op = "manual_match_transaction"
    /\ response.status = 200
    /\ response.count >= 1
    /\ \E t, o \in BankRows :
          /\ t # o
          /\ transactions[t].match_type = "MANUAL"
          /\ transactions[t].document_id # transactions[t].receipt_id
          /\ LinkOf(transactions[o]) = NullLink
    /\ Cardinality(DOMAIN documents) = MaxDocs

\* The bank transactions whose link triple the step has set.
LinkedByStep ==
    {t \in DOMAIN transactions :
        /\ LinkOf(transactions[t]) = NullLink
        /\ LinkOf(transactions'[t]) # NullLink}

\* C26: the result of a run_auto_reconciliation has matches_found =
\* reconciled_transactions = number of entries of details = number of bank
\* transactions whose link triple the run set, and accuracy =
\* matches_found / max(1, number of receipt transactions), 0 when there is
\* no receipt transaction.
C26_RunStatistics ==
    [][(response'.op = "run_auto_reconciliation" /\ response'.status = 200) =>
          LET res == run_results(transactions, documents)
              n == Cardinality(ReceiptRows)
              d == IF n > 1 THEN n ELSE 1
          IN /\ response'.count = res.matches_found
             /\ res.matches_found = res.reconciled_transactions
             /\ res.matches_found = Len(res.details)
             /\ res.matches_found = Cardinality(LinkedByStep)
             /\ \A i \in 1..Len(res.details) :
                   /\ res.details[i].bank_txn_id \in LinkedByStep
                   /\ res.details[i].receipt_doc_id =
                         transactions'[res.details[i].bank_txn_id].receipt_id
             /\ res.accuracy[1] * d = res.matches_found * res.accuracy[2]
             /\ n = 0 => res.accuracy[1] = 0]_vars

\* A run over two bank transactions and one receipt transaction has linked
\* one of them and left the other unmatched.
C26_Witness ==
    /\ response.op = "run_auto_reconciliation"
    /\ response.status = 200
    /\ response.count = 1
    /\ Cardinality(ReceiptRows) = 1
    /\ \E t, o \in BankRows :
          /\ transactions[t].match_type = "AUTO"
          /\ LinkOf(transactions[o]) = NullLink

\* The candidates of bt that no other candidate precedes in the order
\* (date penalty ascending, name score descending).
TopRanked(bt) ==
    LET b == transactions[bt]
        C == candidates(transactions, documents, bt)
    IN {c \in C : \A o \in C :
          \/ date_penalty(b, transactions[c]) < date_penalty(b, transactions[o])
          \/ /\ date_penalty(b, transactions[c]) = date_penalty(b, transactions[o])
             /\ name_score(b, transactions[c]) >= name_score(b, transactions[o])}

\* C27: a run_auto_reconciliation links an unlinked bank transaction only to
\* the document of a surviving candidate with the smallest date penalty and,
\* among those, the highest name score; it writes the link if and only if
\* the final score of that best candidate is at least 0.70, and otherwise
\* leaves the bank transaction with a null triple.
C27_CandidateSelection ==
    [][(response'.op = "run_auto_reconciliation" /\ response'.status = 200) =>
          \A bt \in bank_transactions(transactions, documents) :
              LET after == transactions'[bt]
                  C == candidates(transactions, documents, bt)
              IN /\ C = {} => LinkOf(after) = NullLink
                 /\ C # {} =>
                       /\ after.receipt_id # NULL
                          <=> final_score(transactions, documents, bt) >= 70
                       /\ after.receipt_id # NULL =>
                             /\ \E c \in TopRanked(bt) :
                                   after.receipt_id = transactions[c].document_id
                             /\ after.match_score =
                                   final_score(transactions, documents, bt)
                       /\ after.receipt_id = NULL => LinkOf(after) = NullLink]_vars

\* A run has linked a bank transaction to the nearer of two candidates,
\* although the farther one has the higher name score.
C27_Witness ==
    /\ response.op = "run_auto_reconciliation"
    /\ response.status = 200
    /\ \E bt \in BankRows :
          \E c1, c2 \in candidates(transactions, documents, bt) :
              /\ transactions[c1].document_id # transactions[c2].document_id
              /\ date_penalty(transactions[bt], transactions[c1])
                    < date_penalty(transactions[bt], transactions[c2])
              /\ name_score(transactions[bt], transactions[c1])
                    < name_score(transactions[bt], transactions[c2])
              /\ transactions[bt].receipt_id = transactions[c1].document_id

\* The receipt names an invoice / NF-e.
SignalsInvoice(r) == r.merchant_name = "NFE SURYA DENTAL"

\* C28: an exact-amount pair whose receipt signals an invoice / NF-e and
\* whose bank date is 0 to 45 days after the receipt date passes the date
\* gate of a
\* run_auto_reconciliation, and a bank transaction whose only receipt
\* transaction is such a receipt is linked to it as a full match.
C28_InvoiceWindowWidening ==
    [][(response'.op = "run_auto_reconciliation" /\ response'.status = 200) =>
          \A bt \in bank_transactions(transactions, documents), rt \in ReceiptRows :
              LET b == transactions[bt]
                  r == transactions[rt]
              IN (/\ Abs(Abs(b.amount) - Abs(r.amount)) <= 5
                  /\ SignalsInvoice(r)
                  /\ (b.date - r.date) \in 0..45) =>
                     /\ rt \in candidates(transactions, documents, bt)
                     /\ ReceiptRows = {rt} =>
                           /\ transactions'[bt].receipt_id = r.document_id
                           /\ transactions'[bt].match_type = "AUTO"]_vars

\* C29: every non-null match_score lies in [0, 1]; the score of a link
\* written by run_auto_reconciliation (match_type AUTO or INSTALLMENT (n))
\* lies in [0.70, 1.0]; and a transaction with match_type MANUAL has
\* match_score 1.0.
C29_StoredScoreBounds ==
    \A t \in DOMAIN transactions :
        LET row == transactions[t]
        IN /\ row.match_score # NoScore =>
                 (row.match_score >= 0 /\ row.match_score <= 100)
           /\ row.match_type \notin {NoType, "MANUAL"} =>
                 (row.match_score >= 70 /\ row.match_score <= 100)
           /\ row.match_type = "MANUAL" => row.match_score = 100

\* A manual link and a link written by a run with a score below 1.0 stand
\* side by side.
C29_Witness ==
    /\ \E t \in DOMAIN transactions :
          /\ transactions[t].match_type = "MANUAL"
          /\ transactions[t].match_score = 100
    /\ \E t \in DOMAIN transactions :
          /\ transactions[t].match_type \notin {NoType, "MANUAL"}
          /\ transactions[t].match_score < 100

\* No analysis record is keyed by a transaction that is not there.
NoDanglingAnalysis(txs, tas) == (DOMAIN tas) \subseteq (DOMAIN txs)

\* C30: for every clear_workspace request in every reachable store, the rows
\* after each DELETE statement hold no analysis record keyed by a missing
\* transaction (the analysis records of a transaction go before the
\* transaction), and in the state a successful clear_workspace leaves no
\* analysis record references a transaction that no longer exists.
C30_ReferentialCleanupOrdering ==
    /\ \A month \in Months, only_unlinked \in BOOLEAN :
          LET after == clear_statements(transactions, tax_analysis,
                                        month, only_unlinked)
          IN \A i \in 1..Len(after) :
                 NoDanglingAnalysis(after[i].transactions, after[i].tax_analysis)
    /\ (response.op = "clear_workspace" /\ response.status = 200) =>
          NoDanglingAnalysis(transactions, tax_analysis)

\* A successful clear_workspace has deleted a transaction together with its
\* analysis record.
C30_Witness ==
    /\ response.op = "clear_workspace"
    /\ response.status = 200
    /\ response.count >= 1
    /\ response.analyses >= 1
    /\ transactions # <<>>

\* C31: in the state a clear_workspace(month, year, only_unlinked) leaves,
\* the same request once more answers with deleted_transactions = 0 and
\* deleted_documents = 0 and leaves the store as it is; stated for every
\* request in every reachable store.
C31_CleanupIdempotent ==
    \A month \in Months, only_unlinked \in BOOLEAN :
        LET first == clear_result(transactions, tax_analysis, documents,
                                  month, only_unlinked)
            second == clear_result(first.transactions, first.tax_analysis,
                                   first.documents, month, only_unlinked)
        IN /\ second.status = 200
           /\ second.deleted_transactions = 0
           /\ second.deleted_documents = 0
           /\ second.transactions = first.transactions
           /\ second.tax_analysis = first.tax_analysis
           /\ second.documents = first.documents

\* C32: in every reachable state each transaction has receipt_id,
\* match_score and match_type either all null or all non-null.
C32_LinkTripleConsistent ==
    \A t \in DOMAIN transactions :
        LET row == transactions[t]
        IN \/ /\ row.receipt_id = NULL
              /\ row.match_score = NoScore
              /\ row.match_type = NoType
           \/ /\ row.receipt_id # NULL
              /\ row.match_score # NoScore
              /\ row.match_type # NoType

\* A run has linked a bank transaction next to a manually linked one, and a
\* third transaction carries no link.
C32_Witness ==
    /\ response.op = "run_auto_reconciliation"
    /\ response.count >= 1
    /\ \E t \in DOMAIN transactions : transactions[t].match_type = "MANUAL"
    /\ \E t \in DOMAIN transactions : transactions[t].match_type = "AUTO"
    /\ \E t \in DOMAIN transactions : LinkOf(transactions[t]) = NullLink

\* The transactions a report of some month includes: analysed as
\* deductible.
Reportable(t) ==
    /\ t \in DOMAIN tax_analysis
    /\ tax_analysis[t].classification \in {"Dedutivel", "Parcialmente Dedutivel"}

\* C33: no step turns is_finalized of a transaction from true to false; a
\* step turns it from false to true only if it is a generate_tax_report that
\* answers 200 and includes the transaction; a transaction is created not
\* finalized; and a generate_tax_report that fails changes no transaction.
C33_FinalizationMonotonic ==
    [][/\ \A t \in (DOMAIN transactions) \cap (DOMAIN transactions') :
             /\ transactions[t].is_finalized => transactions'[t].is_finalized
             /\ (~transactions[t].is_finalized /\ transactions'[t].is_finalized) =>
                   /\ response'.op = "generate_tax_report"
                   /\ response'.status = 200
                   /\ Reportable(t)
       /\ \A t \in (DOMAIN transactions') \ (DOMAIN transactions) :
             ~transactions'[t].is_finalized
       /\ (response'.op = "generate_tax_report" /\ response'.status # 200) =>
             transactions' = transactions]_vars

\* A finalized transaction has gone through a manual match and is still
\* finalized.
C33_Witness ==
    /\ response.op = "manual_match_transaction"
    /\ response.status = 200
    /\ \E t \in DOMAIN transactions :
          /\ transactions[t].is_finalized
          /\ transactions[t].match_type = "MANUAL"

\* C34: whenever the best candidate of a bank transaction is an exact-amount
\* candidate, its final score is at least 0.75 and the run links the bank
\* transaction to it as a full match, whatever the name similarity is.
C34_ExactClearsThreshold ==
    [][(response'.op = "run_auto_reconciliation" /\ response'.status = 200) =>
          \A bt \in bank_transactions(transactions, documents) :
              candidates(transactions, documents, bt) # {} =>
                  LET b == transactions[bt]
                      r == transactions[best(transactions, documents, bt)]
                  IN is_1to1(b, r) =>
                        /\ Abs(b.date - r.date) <= 3
                        /\ final_score(transactions, documents, bt) >= 75
                        /\ transactions'[bt].receipt_id = r.document_id
                        /\ transactions'[bt].match_type = "AUTO"
                        /\ transactions'[bt].match_score >= 75]_vars

\* A run has linked an exact pair three days apart whose names are
\* unrelated, with the score 0.75.
C34_Witness ==
    /\ response.op = "run_auto_reconciliation"
    /\ response.status = 200
    /\ \E bt \in BankRows, rt \in ReceiptRows :
          /\ transactions[bt].receipt_id = transactions[rt].document_id
          /\ transactions[bt].match_type = "AUTO"
          /\ transactions[bt].match_score = 75
          /\ date_penalty(transactions[bt], transactions[rt]) = 3
          /\ name_score(transactions[bt], transactions[rt]) <= 80

\* C35: every transaction with a non-null receipt_id is owned by a
\* BANK_STATEMENT document, and no transaction has receipt_id equal to its
\* own document_id.
C35_OnlyBankRowsHoldReceipts ==
    \A t \in DOMAIN transactions :
        transactions[t].receipt_id # NULL =>
            /\ DocTypeOf(transactions, documents, t) = "BANK_STATEMENT"
            /\ transactions[t].receipt_id # transactions[t].document_id

\* C36: clear_workspace with only_unlinked = true deletes neither a receipt
\* document that some transaction currently holds as its receipt_id nor any
\* transaction that document owns; stated for every month in every
\* reachable store.
C36_UnlinkedCleanupKeepsReceiptData ==
    \A month \in Months :
        LET r == clear_result(transactions, tax_analysis, documents, month, TRUE)
        IN \A d \in DOMAIN documents :
               (IsReceiptDoc(d) /\ Holders(d) # {}) =>
                   /\ d \in DOMAIN r.documents
                   /\ OwnedBy(transactions, d) \subseteq DOMAIN r.transactions

\* C37: no two documents share a file_hash, and a step of an upload that
\* looks up or inserts its hash while a document with that hash exists ends
\* the upload with 409 and changes no document and no transaction, also
\* when another upload of the same content is in progress.
C37_UploadDeduplication ==
    /\ [](\A d1 \in DOMAIN documents, d2 \in DOMAIN documents :
             documents[d1].file_hash = documents[d2].file_hash => d1 = d2)
    /\ [][\A p \in Uploads :
             (/\ sessions'[p] # sessions[p]
              /\ sessions'[p].pc \in {"saved", "pending", "done"}
              /\ sessions[p].pc # "pending"
              /\ \E d \in DOMAIN documents :
                     documents[d].file_hash = sessions'[p].file_hash)
             => /\ sessions'[p].pc = "done"
                /\ sessions'[p].status = 409
                /\ documents' = documents
                /\ transactions' = transactions]_vars

\* C38: a document created by process_document is PENDING at first, and
\* once process_document has returned it is PROCESSED, ERROR or deleted.
C38_StatusProgression ==
    /\ \A p \in Uploads :
          (sessions[p].pc = "pending" /\ sessions[p].doc_id \in DOMAIN documents)
              => documents[sessions[p].doc_id].status = "PENDING"
    /\ \A p \in Uploads :
          (/\ sessions[p].pc = "done"
           /\ sessions[p].doc_id \in DOMAIN documents)
              => documents[sessions[p].doc_id].status \in {"PROCESSED", "ERROR"}

\* C39: an AI analysis request (analyze_transaction_tax,
\* analyze_single_transaction or a batch run) on a store where a
\* transaction has a manual override leaves that transaction with its one
\* analysis record, of the same classification and still a manual override.
C39_ManualTaxOverrideAuthoritative ==
    [][response'.op \in {"analyze_transaction_tax", "analyze_single_transaction",
                         "analyze_batch"} =>
          \A t \in DOMAIN tax_analysis :
              tax_analysis[t].is_manual_override =>
                  /\ t \in DOMAIN tax_analysis'
                  /\ tax_analysis'[t].classification = tax_analysis[t].classification
                  /\ tax_analysis'[t].is_manual_override]_vars

\* An individual AI analysis was requested for a transaction whose only
\* analysis is a manual override without an AI result; it was refused.
C39_Witness ==
    /\ response.op = "analyze_single_transaction"
    /\ response.status = 500
    /\ \E t \in DOMAIN tax_analysis :
          /\ tax_analysis[t].is_manual_override
          /\ ~tax_analysis[t].raw_analysis
          /\ transactions[t].receipt_id # NULL
====
